---- MODULE Spec2Model ----
(***************************************************************************)
(* A model of rust-vss: publicly verifiable secret sharing (Schoenmakers)  *)
(* over the multiplicative group modulo a safe prime.  Big integers are    *)
(* TLA+ integers; the group is a small safe-prime group so that every      *)
(* product stays far below 2^31.  Option values are sequences of length    *)
(* at most one: None is << >> and Some(x) is << x >>.  BTreeMaps are        *)
(* functions whose DOMAIN is the key set.                                  *)
(***************************************************************************)
EXTENDS Integers, Sequences, FiniteSets, TLC

(***************************************************************************)
(* Group parameters (VSS.q, VSS.g, VSS.G).                                 *)
(***************************************************************************)
q == 11

g == (q - 1) \div 2

G == 2

None == << >>

Some(x) == << x >>

(***************************************************************************)
(* Signed big-integer arithmetic of num-bigint: `/` and `%` truncate       *)
(* toward zero, mod_floor takes the sign of the divisor.                   *)
(***************************************************************************)
abs(n) == IF n < 0 THEN -n ELSE n

TruncDiv(a, b) ==
  LET m == abs(a) \div abs(b)
  IN IF (a < 0) = (b < 0) THEN m ELSE -m

TruncRem(a, b) == a - b * TruncDiv(a, b)

mod_floor(a, m) == a % m

RECURSIVE Gcd(_, _)
Gcd(a, b) == IF b = 0 THEN a ELSE Gcd(b, a % b)

RECURSIVE modpow(_, _, _)
modpow(b, e, m) ==
  IF e = 0 THEN 1 % m
  ELSE LET h == modpow(b, e \div 2, m)
           s == (h * h) % m
       IN IF e % 2 = 1 THEN (s * (b % m)) % m ELSE s

RECURSIVE extend_gcd(_, _)
extend_gcd(a, b) ==
  IF a = 0 THEN << b, 0, 1 >>
  ELSE LET r == extend_gcd(TruncRem(b, a), a)
       IN << r[1], r[3] - TruncDiv(b, a) * r[2], r[2] >>

mod_inverse(a, modular) ==
  LET r == extend_gcd(a, modular)
  IN IF r[1] # 1 THEN None
     ELSE Some(TruncRem(TruncRem(r[2], modular) + modular, modular))

Contains(values, i) == \E k \in DOMAIN values : values[k] = i

RECURSIVE SeqMax(_)
SeqMax(values) ==
  IF Len(values) = 1 THEN values[1]
  ELSE LET m == SeqMax(Tail(values))
       IN IF values[1] > m THEN values[1] ELSE m

RECURSIVE LagrangeLoop(_, _, _, _, _, _)
LagrangeLoop(j, max, i, values, numerator, denominator) ==
  IF j > max THEN << numerator, denominator >>
  ELSE IF j # i /\ Contains(values, j)
       THEN LagrangeLoop(j + 1, max, i, values, numerator * j, denominator * (j - i))
       ELSE LagrangeLoop(j + 1, max, i, values, numerator, denominator)

(* the loop started at 0 instead of 1 *)
lagrange_coefficient_from_zero(i, values) ==
  IF ~Contains(values, i) THEN << 0, 1 >>
  ELSE LagrangeLoop(0, SeqMax(values), i, values, 1, 1)

lagrange_coefficient(i, values) ==
  IF ~Contains(values, i) THEN << 0, 1 >>
  ELSE LagrangeLoop(1, SeqMax(values), i, values, 1, 1)

(***************************************************************************)
(* Polynomial::get_value: the sum of coefficients[i] * x^i over the        *)
(* integers, no reduction.                                                 *)
(***************************************************************************)
RECURSIVE IntPow(_, _)
IntPow(x, n) == IF n = 0 THEN 1 ELSE x * IntPow(x, n - 1)

RECURSIVE GetValueFrom(_, _, _)
GetValueFrom(coefficients, x, i) ==
  IF i > Len(coefficients) THEN 0
  ELSE coefficients[i] * IntPow(x, i - 1) + GetValueFrom(coefficients, x, i + 1)

get_value(coefficients, x) == coefficients[1] + GetValueFrom(coefficients, x, 2)

(***************************************************************************)
(* Byte strings and the hash.  to_str_radix(10) is the sequence of decimal *)
(* digits, most significant first; a transcript is the concatenation of    *)
(* the absorbed strings, without separators.  SHA-256 is modelled by a     *)
(* small mixing digest: every absorbed byte is folded into a state of      *)
(* DigestWidth values with the odd multiplier DigestMul, so the digest     *)
(* depends on every byte and on the order of the bytes.  The code reads    *)
(* the digest as a big integer and reduces it (mod_floor); DigestMod is    *)
(* that reduction.                                                         *)
(***************************************************************************)
RECURSIVE to_str_radix(_)
to_str_radix(n) ==
  IF n < 10 THEN << n >> ELSE Append(to_str_radix(n \div 10), n % 10)

DigestWidth == 1009

DigestMul == 31

RECURSIVE DigestFold(_, _)
DigestFold(bytes, acc) ==
  IF bytes = << >> THEN acc
  ELSE DigestFold(Tail(bytes), (acc * DigestMul + Head(bytes) + 1) % DigestWidth)

Digest(bytes) == DigestFold(bytes, 7)

DigestMod(bytes, m) == mod_floor(Digest(bytes), m)

RECURSIVE BitXor(_, _)
BitXor(a, b) ==
  IF a = 0 THEN b
  ELSE IF b = 0 THEN a
  ELSE 2 * BitXor(a \div 2, b \div 2) + ((a + b) % 2)

(***************************************************************************)
(* DLEQ: Prover::send, Prover::response, Verifier::update, Verifier::check *)
(***************************************************************************)
Prover_send(gen, w) == modpow(gen, w, q)

Prover_response_mod_q(w, alpha, c) == mod_floor(w - alpha * c, q)

Prover_response_adding(w, alpha, c) == mod_floor(w + alpha * c, q - 1)

Prover_response(w, alpha, c) == mod_floor(w - alpha * c, q - 1)

(* the commitment Verifier::update recomputes from a response *)
Verifier_commitment(gen, h, response, c) ==
  (modpow(gen, response, q) * modpow(h, c, q)) % q

Verifier_update(g1, h1, g2, h2, response, c, hasher) ==
  LET a1 == Verifier_commitment(g1, h1, response, c)
      a2 == Verifier_commitment(g2, h2, response, c)
  IN hasher \o to_str_radix(h1) \o to_str_radix(h2)
            \o to_str_radix(a1) \o to_str_radix(a2)

Verifier_check(c, hasher) == DigestMod(hasher, q - 1) = c

(***************************************************************************)
(* BTreeMap: get, insert, remove.                                          *)
(***************************************************************************)
EmptyMap == [k \in {} |-> 0]

Get(m, k) == IF k \in DOMAIN m THEN Some(m[k]) ELSE None

Insert(m, k, v) == [x \in (DOMAIN m) \cup {k} |-> IF x = k THEN v ELSE m[x]]

Remove(m, k) == [x \in (DOMAIN m) \ {k} |-> m[x]]

(***************************************************************************)
(* The running product x and running exponent of the committed polynomial  *)
(* "in the exponent" at one position, as in distribute and in              *)
(* verify_distribution_shares.                                             *)
(***************************************************************************)
RECURSIVE CommitLoop(_, _, _, _, _, _)
CommitLoop(commitments, position, j, last, x, exponent) ==
  IF j > last THEN x
  ELSE CommitLoop(commitments, position, j + 1, last,
                  (x * modpow(commitments[j], exponent, q)) % q,
                  (exponent * position) % (q - 1))

distribute_x(commitments, threshold, position) ==
  CommitLoop(commitments, position, 1, threshold, 1, 1)

verify_x(commitments, position) ==
  CommitLoop(commitments, position, 1, Len(commitments), 1, 1)

(***************************************************************************)
(* Participant::distribute.  The first loop fills the per-key maps and     *)
(* the transcript, the second computes the responses from the maps.        *)
(***************************************************************************)
distribute_commitments(coefficients, threshold) ==
  [j \in 1..threshold |-> modpow(g, coefficients[j], q)]

distribute_loop_body(acc, publickey, position, commitments, threshold, coefficients, w) ==
  LET secret_share == TruncRem(get_value(coefficients, position), q - 1)
      x == distribute_x(commitments, threshold, position)
      encrypted_secret_share == modpow(publickey, secret_share, q)
      a1 == Prover_send(g, w)
      a2 == Prover_send(publickey, w)
  IN [positions |-> Insert(acc.positions, publickey, position),
      sampling_points |-> Insert(acc.sampling_points, publickey, secret_share),
      X |-> Insert(acc.X, publickey, x),
      shares |-> Insert(acc.shares, publickey, encrypted_secret_share),
      dleq_w |-> Insert(acc.dleq_w, publickey, w),
      hasher |-> acc.hasher \o to_str_radix(x) \o to_str_radix(encrypted_secret_share)
                            \o to_str_radix(a1) \o to_str_radix(a2)]

RECURSIVE distribute_loop(_, _, _, _, _, _, _)
distribute_loop(acc, publickeys, position, commitments, threshold, coefficients, w) ==
  IF position > Len(publickeys) THEN acc
  ELSE distribute_loop(
         distribute_loop_body(acc, publickeys[position], position, commitments,
                              threshold, coefficients, w),
         publickeys, position + 1, commitments, threshold, coefficients, w)

distribute_challenge(hasher) == DigestMod(hasher, q - 1)

(* the responses had each recipient been given a witness of its own *)
distribute_responses_own_witness(acc, publickeys, challenge) ==
  [pk \in {publickeys[k] : k \in DOMAIN publickeys} |->
     Prover_response(acc.dleq_w[pk] + acc.positions[pk], acc.sampling_points[pk],
                     challenge)]

distribute_responses(acc, publickeys, challenge) ==
  [pk \in {publickeys[k] : k \in DOMAIN publickeys} |->
     Prover_response(acc.dleq_w[pk], acc.sampling_points[pk], challenge)]

RECURSIVE BitLength(_)
BitLength(n) == IF n = 0 THEN 0 ELSE 1 + BitLength(n \div 2)

(* the secret cut to the bit width of q before it is masked *)
distribute_u_truncating(secret, coefficients) ==
  LET shared_value == modpow(G, mod_floor(get_value(coefficients, 0), q - 1), q)
      hash == DigestMod(to_str_radix(shared_value), q)
  IN BitXor(secret % IntPow(2, BitLength(q)), hash)

(* the digest of the shared value reduced modulo q - 1 *)
distribute_u_exponent_modulus(secret, coefficients) ==
  LET shared_value == modpow(G, mod_floor(get_value(coefficients, 0), q - 1), q)
      hash == DigestMod(to_str_radix(shared_value), q - 1)
  IN BitXor(secret, hash)

distribute_u(secret, coefficients) ==
  LET shared_value == modpow(G, mod_floor(get_value(coefficients, 0), q - 1), q)
      hash == DigestMod(to_str_radix(shared_value), q)
  IN BitXor(secret, hash)

distribute(secret, publickeys, threshold, coefficients, w) ==
  LET commitments == distribute_commitments(coefficients, threshold)
      acc == distribute_loop(
               [positions |-> EmptyMap, sampling_points |-> EmptyMap, X |-> EmptyMap,
                shares |-> EmptyMap, dleq_w |-> EmptyMap, hasher |-> << >>],
               publickeys, 1, commitments, threshold, coefficients, w)
      challenge == distribute_challenge(acc.hasher)
  IN [commitments |-> commitments,
      positions |-> acc.positions,
      shares |-> acc.shares,
      publickeys |-> publickeys,
      challenge |-> challenge,
      responses |-> distribute_responses(acc, publickeys, challenge),
      u |-> distribute_u(secret, coefficients)]

(***************************************************************************)
(* VSS::generate_public_key and Participant::extract_share.  The outcome   *)
(* of a call is Panic where the code unwraps an absent value or an         *)
(* assertion fails, and Ok(v) where it returns v.                          *)
(***************************************************************************)
Panic == [panicked |-> TRUE]

Ok(v) == [panicked |-> FALSE, ret |-> v]

(* G^private_key modulo the wrong modulus *)
generate_public_key_in_exponent_group(private_key, modulus) ==
  modpow(G, private_key, modulus - 1)

(* generate_public_key of a VSS whose field q is modulus *)
generate_public_key_in(private_key, modulus) == modpow(G, private_key, modulus)

generate_public_key(private_key) == generate_public_key_in(private_key, q)

(* every scalar below the modulus, the gcd not tested *)
generate_private_key_unchecked(modulus) == 0..(modulus - 1)

(* the values generate_private_key can return: it draws below q until *)
(* the draw is coprime to q - 1                                        *)
generate_private_key(modulus) == {k \in 0..(modulus - 1) : Gcd(k, modulus - 1) = 1}

IsPrime(n) == n >= 2 /\ \A d \in 2..(n - 1) : n % d # 0

(* what Generator::safe_prime returns: a prime q with (q - 1) / 2 prime *)
IsSafePrime(n) == IsPrime(n) /\ IsPrime((n - 1) \div 2)

extract_share_no_inverse(share_box, private_key, w) ==
  LET public_key == generate_public_key(private_key)
      looked == Get(share_box.shares, public_key)
      inv == mod_inverse(private_key, q - 1)
  IN IF looked = None \/ inv = None THEN Panic
     ELSE LET encrypted_secret_share == looked[1]
              decrypted_share == modpow(encrypted_secret_share, private_key, q)
              a1 == Prover_send(G, w)
              a2 == Prover_send(decrypted_share, w)
              hasher == to_str_radix(public_key) \o to_str_radix(encrypted_secret_share)
                          \o to_str_radix(a1) \o to_str_radix(a2)
              challenge == DigestMod(hasher, q - 1)
          IN Ok(Some([publickey |-> public_key,
                      share |-> decrypted_share,
                      challenge |-> challenge,
                      response |-> Prover_response(w, private_key, challenge)]))

extract_share_inverse_mod_q(share_box, private_key, w) ==
  LET public_key == generate_public_key(private_key)
      looked == Get(share_box.shares, public_key)
      inv == mod_inverse(private_key, q)
  IN IF looked = None \/ inv = None THEN Panic
     ELSE LET encrypted_secret_share == looked[1]
              privatekey_inverse == inv[1]
              decrypted_share == modpow(encrypted_secret_share, privatekey_inverse, q)
              a1 == Prover_send(G, w)
              a2 == Prover_send(decrypted_share, w)
              hasher == to_str_radix(public_key) \o to_str_radix(encrypted_secret_share)
                          \o to_str_radix(a1) \o to_str_radix(a2)
              challenge == DigestMod(hasher, q - 1)
          IN Ok(Some([publickey |-> public_key,
                      share |-> decrypted_share,
                      challenge |-> challenge,
                      response |-> Prover_response(w, private_key, challenge)]))

extract_share(share_box, private_key, w) ==
  LET public_key == generate_public_key(private_key)
      looked == Get(share_box.shares, public_key)
      inv == mod_inverse(private_key, q - 1)
  IN IF looked = None \/ inv = None THEN Panic
     ELSE LET encrypted_secret_share == looked[1]
              privatekey_inverse == inv[1]
              decrypted_share == modpow(encrypted_secret_share, privatekey_inverse, q)
              a1 == Prover_send(G, w)
              a2 == Prover_send(decrypted_share, w)
              hasher == to_str_radix(public_key) \o to_str_radix(encrypted_secret_share)
                          \o to_str_radix(a1) \o to_str_radix(a2)
              challenge == DigestMod(hasher, q - 1)
          IN Ok(Some([publickey |-> public_key,
                      share |-> decrypted_share,
                      challenge |-> challenge,
                      response |-> Prover_response(w, private_key, challenge)]))

(***************************************************************************)
(* VSS::verify, VSS::verify_share, VSS::verify_distribution_shares.        *)
(***************************************************************************)
verify_hasher(sharebox, encrypted_share) ==
  Verifier_update(G, sharebox.publickey, sharebox.share, encrypted_share,
                  sharebox.response, sharebox.challenge, << >>)

verify(sharebox, encrypted_share) ==
  Verifier_check(sharebox.challenge, verify_hasher(sharebox, encrypted_share))

verify_share(sharebox, distribution_sharebox, publickey) ==
  LET encrypted_share == Get(distribution_sharebox.shares, publickey)
  IN IF encrypted_share = None THEN FALSE
     ELSE verify(sharebox, encrypted_share[1])

RECURSIVE verify_distribution_loop(_, _, _)
verify_distribution_loop(d, k, hasher) ==
  IF k > Len(d.publickeys) THEN Some(hasher)
  ELSE LET publickey == d.publickeys[k]
           position == Get(d.positions, publickey)
           response == Get(d.responses, publickey)
           encrypted_share == Get(d.shares, publickey)
       IN IF position = None \/ response = None \/ encrypted_share = None THEN None
          ELSE verify_distribution_loop(d, k + 1,
                 Verifier_update(g, verify_x(d.commitments, position[1]), publickey,
                                 encrypted_share[1], response[1], d.challenge, hasher))

verify_distribution_shares_lenient(distribution_sharebox) ==
  LET hasher == verify_distribution_loop(distribution_sharebox, 1, << >>)
  IN IF hasher = None THEN TRUE
     ELSE Verifier_check(distribution_sharebox.challenge, hasher[1])

(* the loop returns false at the first listed key with a missing entry; *)
(* otherwise the accumulated transcript is checked against the challenge *)
verify_distribution_shares(distribution_sharebox) ==
  LET hasher == verify_distribution_loop(distribution_sharebox, 1, << >>)
  IN IF hasher = None THEN FALSE
     ELSE Verifier_check(distribution_sharebox.challenge, hasher[1])

(***************************************************************************)
(* VSS::compute_factor and VSS::reconstruct.                               *)
(***************************************************************************)
compute_exponent(lagrangeCoefficient) ==
  IF TruncRem(lagrangeCoefficient[1], lagrangeCoefficient[2]) = 0
  THEN TruncDiv(lagrangeCoefficient[1], abs(lagrangeCoefficient[2]))
  ELSE LET gcd == Gcd(lagrangeCoefficient[1], abs(lagrangeCoefficient[2]))
           numerator == lagrangeCoefficient[1] \div gcd
           denominator == abs(lagrangeCoefficient[2]) \div gcd
           inverseDenominator == mod_inverse(denominator, q - 1)
       IN IF inverseDenominator # None
          THEN TruncRem(numerator * inverseDenominator[1], q - 1)
          ELSE 1

(* the sign of the Lagrange coefficient ignored *)
compute_factor_unsigned(position, share, values) ==
  modpow(share, compute_exponent(lagrange_coefficient(position, values)), q)

compute_factor(position, share, values) ==
  LET lagrangeCoefficient == lagrange_coefficient(position, values)
      exponent == compute_exponent(lagrangeCoefficient)
      factor == modpow(share, exponent, q)
  IN IF lagrangeCoefficient[1] * lagrangeCoefficient[2] < 0
     THEN LET inverseFactor == mod_inverse(factor, q)
          IN IF inverseFactor # None THEN inverseFactor[1] ELSE factor
     ELSE factor

RECURSIVE reconstruct_shares_skip(_, _, _, _)
reconstruct_shares_skip(share_boxes, positions, k, shares) ==
  IF k > Len(share_boxes) THEN Some(shares)
  ELSE LET position == Get(positions, share_boxes[k].publickey)
       IN IF position = None
          THEN reconstruct_shares_skip(share_boxes, positions, k + 1, shares)
          ELSE reconstruct_shares_skip(share_boxes, positions, k + 1,
                                       Insert(shares, position[1], share_boxes[k].share))

(* the shares kept under their place in the list, not under their position *)
RECURSIVE reconstruct_shares_in_list_order(_, _, _, _)
reconstruct_shares_in_list_order(share_boxes, positions, k, shares) ==
  IF k > Len(share_boxes) THEN Some(shares)
  ELSE LET position == Get(positions, share_boxes[k].publickey)
       IN IF position = None THEN None
          ELSE reconstruct_shares_in_list_order(share_boxes, positions, k + 1,
                                                Insert(shares, k, share_boxes[k].share))

RECURSIVE reconstruct_shares(_, _, _, _)
reconstruct_shares(share_boxes, positions, k, shares) ==
  IF k > Len(share_boxes) THEN Some(shares)
  ELSE LET position == Get(positions, share_boxes[k].publickey)
       IN IF position = None THEN None
          ELSE reconstruct_shares(share_boxes, positions, k + 1,
                                  Insert(shares, position[1], share_boxes[k].share))

RECURSIVE SortedKeys(_)
SortedKeys(keys) ==
  IF keys = {} THEN << >>
  ELSE LET m == CHOOSE x \in keys : \A y \in keys : x <= y
       IN << m >> \o SortedKeys(keys \ {m})

RECURSIVE reconstruct_fold(_, _, _)
reconstruct_fold(factors, k, secret) ==
  IF k > Len(factors) THEN secret
  ELSE reconstruct_fold(factors, k + 1, (secret * factors[k]) % q)

reconstruct(share_boxes, distribution_sharebox) ==
  IF Len(share_boxes) < Len(distribution_sharebox.commitments) THEN None
  ELSE LET built == reconstruct_shares(share_boxes, distribution_sharebox.positions,
                                       1, EmptyMap)
       IN IF built = None THEN None
          ELSE LET shares == built[1]
                   values == SortedKeys(DOMAIN shares)
                   factors == [k \in DOMAIN values |->
                                 compute_factor(values[k], shares[values[k]], values)]
                   secret == reconstruct_fold(factors, 1, 1)
                   hash == DigestMod(to_str_radix(secret), q)
               IN Some(BitXor(hash, distribution_sharebox.u))

(***************************************************************************)
(* string_to_secret and string_from_secret.  A string is its sequence of   *)
(* UTF-8 bytes.  BigUint::from_bytes_be reads the bytes as a big-endian    *)
(* number in radix 256; to_bytes_be writes the big-endian digits without   *)
(* leading zero bytes, and the single byte 0 for the number zero;          *)
(* String::from_utf8 fails on a byte sequence that is not valid UTF-8 and  *)
(* to_biguint on a negative number, and the unwrap then panics.            *)
(***************************************************************************)
ByteRadix == 256

RECURSIVE from_bytes_be_fold(_, _)
from_bytes_be_fold(bytes, acc) ==
  IF bytes = << >> THEN acc
  ELSE from_bytes_be_fold(Tail(bytes), acc * ByteRadix + Head(bytes))

from_bytes_be(bytes) == from_bytes_be_fold(bytes, 0)

RECURSIVE to_bytes_be(_)
to_bytes_be(n) ==
  IF n < ByteRadix THEN << n >>
  ELSE Append(to_bytes_be(n \div ByteRadix), n % ByteRadix)

IsContinuation(b) == 128 <= b /\ b <= 191

RECURSIVE Utf8Valid(_)
Utf8Valid(bytes) ==
  IF bytes = << >> THEN TRUE
  ELSE LET b == bytes[1]
           n == Len(bytes)
       IN IF b < 128 THEN Utf8Valid(Tail(bytes))
          ELSE IF 194 <= b /\ b <= 223
          THEN n >= 2 /\ IsContinuation(bytes[2]) /\ Utf8Valid(SubSeq(bytes, 3, n))
          ELSE IF 224 <= b /\ b <= 239
          THEN /\ n >= 3
               /\ IsContinuation(bytes[2]) /\ IsContinuation(bytes[3])
               /\ (b = 224 => bytes[2] >= 160)
               /\ (b = 237 => bytes[2] <= 159)
               /\ Utf8Valid(SubSeq(bytes, 4, n))
          ELSE IF 240 <= b /\ b <= 244
          THEN /\ n >= 4
               /\ IsContinuation(bytes[2]) /\ IsContinuation(bytes[3])
               /\ IsContinuation(bytes[4])
               /\ (b = 240 => bytes[2] >= 144)
               /\ (b = 244 => bytes[2] <= 143)
               /\ Utf8Valid(SubSeq(bytes, 5, n))
          ELSE FALSE

string_to_secret(message) == from_bytes_be(message)

string_from_secret(secret) ==
  IF secret < 0 THEN Panic
  ELSE LET bytes == to_bytes_be(secret)
       IN IF Utf8Valid(bytes) THEN Ok(bytes) ELSE Panic

(***************************************************************************)
(* Input sets.  Private keys are the values generate_private_key can       *)
(* return; polynomial coefficients and witnesses are drawn from an initial *)
(* segment of [0, q); a list of recipients holds distinct public keys, in  *)
(* increasing or in decreasing order.                                      *)
(***************************************************************************)
MaxN == 3

MaxCoef == 1

MaxW == 1

Secrets == {5, 20}

PrivateKeys == generate_private_key(q)

PublicKeys == {generate_public_key(k) : k \in PrivateKeys}

Coefficients == 0..MaxCoef

Witnesses == 0..MaxW

Range(s) == {s[k] : k \in DOMAIN s}

KeyLists ==
  {l \in UNION {[1..n -> PublicKeys] : n \in 1..MaxN} :
     \/ \A i, j \in DOMAIN l : i < j => l[i] < l[j]
     \/ \A i, j \in DOMAIN l : i < j => l[i] > l[j]}

(* the lists of recipients in which some public key is repeated *)
RepeatedKeyLists ==
  {l \in UNION {[1..n -> PublicKeys] : n \in 2..MaxN} :
     \E i, j \in DOMAIN l : i # j /\ l[i] = l[j]}

Polynomials(threshold) == [1..threshold -> Coefficients]

MaxInt == 12

(* arguments of Util::mod_inverse: any integer, a modulus above 1 *)
InverseArguments == (0 - MaxInt)..MaxInt

Moduli == 2..MaxInt

MaxPos == 4

MaxValues == 3

(* arguments of Util::lagrange_coefficient: i64 values, 0 and -1 included *)
Positions == (0 - 1)..MaxPos

PositionLists == UNION {[1..n -> Positions] : n \in 0..MaxValues}

MaxQ == 107

(* the groups VSS::init can set up, small ones *)
SafePrimes == {m \in 5..MaxQ : IsSafePrime(m)}

MaxStrLen == 3

(* the bytes of NUL, "A", "a" and "z" *)
AsciiBytes == {0, 65, 97, 122}

(* the two bytes of U+00E9 *)
EAcute == << 195, 169 >>

AsciiStrings(n) == UNION {[1..k -> AsciiBytes] : k \in 0..n}

(* the strings of at most MaxStrLen bytes: ASCII ones, and ASCII ones *)
(* followed by U+00E9                                                 *)
Strings ==
  AsciiStrings(MaxStrLen) \cup {m \o EAcute : m \in AsciiStrings(MaxStrLen - 2)}

(***************************************************************************)
(* State: the published DistributionShareBox, the dealer's own inputs to   *)
(* the sharing, the call in progress with its result, and the privatekey   *)
(* and publickey fields of a Participant.                                  *)
(***************************************************************************)
VARIABLES dsb, dealer, out, privatekey, publickey

vars == << dsb, dealer, out, privatekey, publickey >>

keypair == << privatekey, publickey >>

Idle == [op |-> "idle"]

(* Participant::new zeroes both key fields *)
Init ==
  /\ dsb = None /\ dealer = None /\ out = Idle
  /\ privatekey = 0 /\ publickey = 0

(* Participant::initialize *)
Initialize ==
  /\ out = Idle
  /\ \E private_key \in generate_private_key(q) :
       /\ privatekey' = private_key
       /\ publickey' = generate_public_key(private_key)
  /\ out' = [op |-> "initialize"]
  /\ UNCHANGED << dsb, dealer >>

(* a VSS set up by VSS::init generates a key pair *)
GenerateKeys ==
  /\ out = Idle
  /\ \E modulus \in SafePrimes :
       \E private_key \in generate_private_key(modulus) :
         out' = [op |-> "generate_public_key", q |-> modulus,
                 private_key |-> private_key,
                 ret |-> generate_public_key_in(private_key, modulus)]
  /\ UNCHANGED << dsb, dealer, keypair >>

distribute_assert_strict(threshold, publickeys) == threshold < Len(publickeys)

(* the assertion that opens Participant::distribute *)
distribute_assert(threshold, publickeys) == threshold <= Len(publickeys)

(* distribute_secret: draws the polynomial and the witness, panics on t > N *)
DistributeSecretTo(recipients) ==
  /\ out = Idle
  /\ dsb = None
  /\ \E secret \in Secrets, publickeys \in recipients :
       \E threshold \in 1..(Len(publickeys) + 1) :
         IF ~distribute_assert(threshold, publickeys)
         THEN /\ out' = [op |-> "distribute_secret", panicked |-> TRUE,
                         threshold |-> threshold, publickeys |-> publickeys]
              /\ UNCHANGED << dsb, dealer >>
         ELSE \E coefficients \in Polynomials(threshold), w \in Witnesses :
                /\ dsb' = Some(distribute(secret, publickeys, threshold, coefficients, w))
                /\ dealer' = Some([secret |-> secret, publickeys |-> publickeys,
                                   threshold |-> threshold,
                                   coefficients |-> coefficients, w |-> w])
                /\ out' = [op |-> "distribute_secret", panicked |-> FALSE,
                           threshold |-> threshold, publickeys |-> publickeys]

DistributeSecret == DistributeSecretTo(KeyLists)

(* distribute_secret with the key fields of the dealer drawn anew *)
Distribute_rekeying ==
  /\ DistributeSecret
  /\ \E private_key \in generate_private_key(q) :
       /\ privatekey' = private_key
       /\ publickey' = generate_public_key(private_key)

(* distribute_secret takes &mut self and leaves the key fields alone *)
Distribute == DistributeSecret /\ UNCHANGED keypair

(* distribute_secret handed a list in which a public key occurs twice *)
DistributeRepeated == DistributeSecretTo(RepeatedKeyLists) /\ UNCHANGED keypair

(* the caller takes the result; the next call may start *)
Return ==
  /\ out # Idle
  /\ out' = Idle
  /\ UNCHANGED << dsb, dealer, keypair >>

(***************************************************************************)
(* What a party other than the dealer can hand to the public operations:   *)
(* the published box, the box with one value replaced (its lowest bit      *)
(* flipped, or the modulus of its domain added), and any of these with one *)
(* map entry of a listed key removed.                                      *)
(***************************************************************************)
TamperedValues(x, m) == {BitXor(x, 1), x + m}

TamperedDistributions(d) ==
  UNION {{[d EXCEPT !.commitments[j] = v] : v \in TamperedValues(d.commitments[j], q)} :
           j \in DOMAIN d.commitments}
  \cup UNION {{[d EXCEPT !.shares[pk] = v] : v \in TamperedValues(d.shares[pk], q)} :
                pk \in DOMAIN d.shares}
  \cup UNION {{[d EXCEPT !.responses[pk] = v] : v \in TamperedValues(d.responses[pk], q - 1)} :
                pk \in DOMAIN d.responses}
  \cup {[d EXCEPT !.challenge = v] : v \in TamperedValues(d.challenge, q - 1)}

PrunedDistributions(d) ==
  UNION {{[d EXCEPT !.positions = Remove(@, pk)],
          [d EXCEPT !.responses = Remove(@, pk)],
          [d EXCEPT !.shares = Remove(@, pk)]} : pk \in Range(d.publickeys)}

DistributionInputs(d) ==
  LET valued == {d} \cup TamperedDistributions(d)
  IN valued \cup UNION {PrunedDistributions(b) : b \in valued}

VerifyDistributionOf(boxes) ==
  /\ out = Idle
  /\ dsb # None
  /\ \E box \in boxes :
       out' = [op |-> "verify_distribution_shares", box |-> box,
               ret |-> verify_distribution_shares(box)]
  /\ UNCHANGED << dsb, dealer, keypair >>

VerifyDistribution ==
  VerifyDistributionOf(IF dsb = None THEN {} ELSE DistributionInputs(dsb[1]))

(* verify_distribution_shares handed the published box as it is *)
VerifyPublished == VerifyDistributionOf(IF dsb = None THEN {} ELSE {dsb[1]})

(***************************************************************************)
(* extract_secret_share draws the witness; the private key is any scalar   *)
(* below q, valid or not, of a recipient or not.                           *)
(***************************************************************************)
Extract ==
  /\ out = Idle
  /\ dsb # None
  /\ \E private_key \in 0..(q - 1), w \in Witnesses :
       out' = [op |-> "extract_secret_share", box |-> dsb[1],
               private_key |-> private_key, w |-> w]
              @@ extract_share(dsb[1], private_key, w)
  /\ UNCHANGED << dsb, dealer, keypair >>

(***************************************************************************)
(* The ShareBoxes in circulation: those the recipients extract from the    *)
(* published box, those with one field replaced, and those a key holder    *)
(* extracts from a copy of the box in which another recipient's encrypted  *)
(* share is filed under the holder's own key.                              *)
(***************************************************************************)
ExtractedShareBoxes(d) ==
  {r.ret[1] : r \in {x \in {extract_share(d, k, w) : k \in PrivateKeys, w \in Witnesses} :
                       ~x.panicked}}

TamperedShareBoxes(sb) ==
  {[sb EXCEPT !.share = v] : v \in TamperedValues(sb.share, q)}
  \cup {[sb EXCEPT !.response = v] : v \in TamperedValues(sb.response, q - 1)}
  \cup {[sb EXCEPT !.challenge = v] : v \in TamperedValues(sb.challenge, q - 1)}

RelabelledShareBoxes(sb) ==
  {[sb EXCEPT !.publickey = pk] : pk \in PublicKeys \ {sb.publickey}}

RefiledDistributions(d) ==
  {[d EXCEPT !.shares = Insert(@, mine, d.shares[other])] :
     mine \in PublicKeys, other \in DOMAIN d.shares}

ShareBoxInputs(d) ==
  LET honest == ExtractedShareBoxes(d)
  IN honest
     \cup UNION {TamperedShareBoxes(sb) \cup RelabelledShareBoxes(sb) : sb \in honest}
     \cup UNION {ExtractedShareBoxes(b) : b \in RefiledDistributions(d)}

VerifyShareOf(shareboxes) ==
  /\ out = Idle
  /\ dsb # None
  /\ \E sharebox \in shareboxes, pk \in PublicKeys :
       out' = [op |-> "verify_share", sharebox |-> sharebox, box |-> dsb[1],
               publickey |-> pk,
               ret |-> verify_share(sharebox, dsb[1], pk)]
  /\ UNCHANGED << dsb, dealer, keypair >>

VerifyShare == VerifyShareOf(IF dsb = None THEN {} ELSE ShareBoxInputs(dsb[1]))

(* verify_share handed a ShareBox as a recipient extracted it *)
VerifyExtracted ==
  VerifyShareOf(IF dsb = None THEN {} ELSE ExtractedShareBoxes(dsb[1]))

(***************************************************************************)
(* reconstruct is handed a list of ShareBoxes: extracted ones in any       *)
(* order, possibly repeated, possibly with one relabelled to a foreign key. *)
(***************************************************************************)
ExtractedWith(d, w) ==
  {r.ret[1] : r \in {x \in {extract_share(d, k, w) : k \in PrivateKeys} : ~x.panicked}}

ForeignShareBoxes(sb, d) ==
  {[sb EXCEPT !.publickey = pk] : pk \in PublicKeys \ DOMAIN d.positions}

ShareBoxLists(d) ==
  LET lists == UNION {UNION {[1..n -> ExtractedWith(d, w)] : n \in 1..Len(d.publickeys)} :
                        w \in Witnesses}
  IN lists
     \cup UNION {UNION {{[l EXCEPT ![k] = sb] : sb \in ForeignShareBoxes(l[k], d)} :
                          k \in DOMAIN l} : l \in lists}

ReconstructFrom(lists) ==
  /\ out = Idle
  /\ dsb # None
  /\ \E share_boxes \in lists :
       out' = [op |-> "reconstruct", share_boxes |-> share_boxes, box |-> dsb[1],
               ret |-> reconstruct(share_boxes, dsb[1])]
  /\ UNCHANGED << dsb, dealer, keypair >>

Reconstruct == ReconstructFrom(IF dsb = None THEN {} ELSE ShareBoxLists(dsb[1]))

(* the ShareBoxes of the first k recipients, in the order of the list *)
ListedShareBoxLists(d) ==
  {l \in UNION {[1..n -> ExtractedShareBoxes(d)] : n \in 1..Len(d.publickeys)} :
     \A k \in DOMAIN l : l[k].publickey = d.publickeys[k]}

(* reconstruct handed extracted ShareBoxes in the order of the recipients *)
ReconstructListed ==
  ReconstructFrom(IF dsb = None THEN {} ELSE ListedShareBoxLists(dsb[1]))

(* Util::mod_inverse and Util::lagrange_coefficient, called directly *)
ModInverse ==
  /\ out = Idle
  /\ \E a \in InverseArguments, modular \in Moduli :
       out' = [op |-> "mod_inverse", a |-> a, modular |-> modular,
               ret |-> mod_inverse(a, modular)]
  /\ UNCHANGED << dsb, dealer, keypair >>

LagrangeCoefficient ==
  /\ out = Idle
  /\ \E i \in Positions, values \in PositionLists :
       out' = [op |-> "lagrange_coefficient", i |-> i, values |-> values,
               ret |-> lagrange_coefficient(i, values)]
  /\ UNCHANGED << dsb, dealer, keypair >>

(***************************************************************************)
(* reconstruct step by step.  The loop over the supplied list fills the    *)
(* BTreeMap; par_iter then runs one task per position, in any order, and   *)
(* collect puts each factor at the index of its position; the fold runs    *)
(* over the collected vector.  first is the position whose task finished   *)
(* first, if any has.                                                      *)
(***************************************************************************)
DistinctShareBoxLists(d) ==
  {l \in UNION {[1..n -> ExtractedWith(d, 0)] : n \in 1..Len(d.publickeys)} :
     \A i, j \in DOMAIN l : i # j => l[i].publickey # l[j].publickey}

ReconstructCollect ==
  /\ out = Idle
  /\ dsb # None
  /\ \E share_boxes \in DistinctShareBoxLists(dsb[1]) :
       LET built == reconstruct_shares(share_boxes, dsb[1].positions, 1, EmptyMap)
       IN IF Len(share_boxes) < Len(dsb[1].commitments) \/ built = None
          THEN out' = [op |-> "reconstruct_none", share_boxes |-> share_boxes,
                       box |-> dsb[1], ret |-> None]
          ELSE out' = [op |-> "reconstruct_par_iter", share_boxes |-> share_boxes,
                       box |-> dsb[1], shares |-> built[1],
                       values |-> SortedKeys(DOMAIN built[1]),
                       factors |-> EmptyMap, first |-> None]
  /\ UNCHANGED << dsb, dealer, keypair >>

ReconstructFactor ==
  /\ out.op = "reconstruct_par_iter"
  /\ \E position \in (DOMAIN out.shares) \ (DOMAIN out.factors) :
       out' = [out EXCEPT
                 !.factors = Insert(@, position,
                                    compute_factor(position, out.shares[position],
                                                   out.values)),
                 !.first = IF @ = None THEN Some(position) ELSE @]
  /\ UNCHANGED << dsb, dealer, keypair >>

ReconstructFold ==
  /\ out.op = "reconstruct_par_iter"
  /\ DOMAIN out.factors = DOMAIN out.shares
  /\ LET factors == [k \in DOMAIN out.values |-> out.factors[out.values[k]]]
         secret == reconstruct_fold(factors, 1, 1)
         hash == DigestMod(to_str_radix(secret), q)
     IN out' = [op |-> "reconstruct_folded", share_boxes |-> out.share_boxes,
                box |-> out.box, factors |-> factors, first |-> out.first,
                secret |-> secret, ret |-> Some(BitXor(hash, out.box.u))]
  /\ UNCHANGED << dsb, dealer, keypair >>

(***************************************************************************)
(* One DLEQ exchange: DLEQ::init2 by a prover that knows alpha, with the   *)
(* challenge c set, then DLEQ::update_hash on a fresh hasher.              *)
(***************************************************************************)
Bases == 1..(q - 1)

Exponents == 0..MaxInt

DleqInit ==
  /\ out = Idle
  /\ \E g1 \in Bases, g2 \in Bases, alpha \in Exponents, w \in Exponents,
        c \in Exponents :
       out' = [op |-> "dleq_init",
               g1 |-> g1, h1 |-> modpow(g1, alpha, q),
               g2 |-> g2, h2 |-> modpow(g2, alpha, q),
               alpha |-> alpha, w |-> w, c |-> c,
               a1 |-> Prover_send(g1, w), a2 |-> Prover_send(g2, w),
               r |-> Prover_response(w, alpha, c)]
  /\ UNCHANGED << dsb, dealer, keypair >>

DleqUpdateHash ==
  /\ out.op = "dleq_init"
  /\ out' = [out EXCEPT !.op = "dleq_update_hash"]
            @@ [hasher |-> Verifier_update(out.g1, out.h1, out.g2, out.h2,
                                           out.r, out.c, << >>)]
  /\ UNCHANGED << dsb, dealer, keypair >>

(***************************************************************************)
(* The secret encoding: a caller encodes a string, and decodes the number  *)
(* it got.                                                                 *)
(***************************************************************************)
StringToSecret ==
  /\ out = Idle
  /\ \E message \in Strings :
       out' = [op |-> "string_to_secret", message |-> message,
               ret |-> string_to_secret(message)]
  /\ UNCHANGED << dsb, dealer, keypair >>

StringFromSecret ==
  /\ out.op = "string_to_secret"
  /\ out' = [op |-> "string_from_secret", message |-> out.message, secret |-> out.ret]
            @@ string_from_secret(out.ret)
  /\ UNCHANGED << dsb, dealer, keypair >>

Next ==
  \/ Distribute
  \/ Return
  \/ VerifyDistribution
  \/ Extract
  \/ VerifyShare
  \/ Reconstruct
  \/ StringToSecret
  \/ StringFromSecret
  \/ Initialize
  \/ GenerateKeys
  \/ DistributeRepeated
  \/ ModInverse
  \/ LagrangeCoefficient
  \/ VerifyPublished
  \/ VerifyExtracted
  \/ ReconstructListed
  \/ DleqInit
  \/ DleqUpdateHash
  \/ ReconstructCollect
  \/ ReconstructFactor
  \/ ReconstructFold

Spec == Init /\ [][Next]_vars

NextDistribution == Distribute \/ Return \/ VerifyDistribution

SpecDistribution == Init /\ [][NextDistribution]_vars

NextShare == Distribute \/ Return \/ Extract \/ VerifyShare

SpecShare == Init /\ [][NextShare]_vars

NextReconstruct == Distribute \/ Return \/ Reconstruct

SpecReconstruct == Init /\ [][NextReconstruct]_vars

NextUtil == ModInverse \/ LagrangeCoefficient \/ Return

SpecUtil == Init /\ [][NextUtil]_vars

NextSharing == Distribute \/ DistributeRepeated \/ Return

SpecSharing == Init /\ [][NextSharing]_vars

NextGroup == GenerateKeys \/ Return

SpecGroup == Init /\ [][NextGroup]_vars

NextKeys ==
  \/ Initialize
  \/ Distribute
  \/ Return
  \/ VerifyPublished
  \/ Extract
  \/ VerifyExtracted
  \/ ReconstructListed

SpecKeys == Init /\ [][NextKeys]_vars

NextSchedule ==
  \/ Distribute
  \/ Return
  \/ ReconstructCollect
  \/ ReconstructFactor
  \/ ReconstructFold

SpecSchedule == Init /\ [][NextSchedule]_vars

NextDleq == DleqInit \/ DleqUpdateHash \/ Return

SpecDleq == Init /\ [][NextDleq]_vars

NextEncoding == StringToSecret \/ StringFromSecret \/ Return

SpecEncoding == Init /\ [][NextEncoding]_vars

(***************************************************************************)
(* Properties.                                                             *)
(***************************************************************************)
Listed(d) == Range(d.publickeys)

(* sb is what the holder of the private key of sb.publickey extracts from d *)
HonestlyExtracted(sb, d) ==
  \E private_key \in PrivateKeys, w \in Witnesses :
    /\ generate_public_key(private_key) = sb.publickey
    /\ extract_share(d, private_key, w) = Ok(Some(sb))

HonestOfDistinctRecipients(share_boxes, d) ==
  /\ \A i, j \in DOMAIN share_boxes :
       i # j => share_boxes[i].publickey # share_boxes[j].publickey
  /\ \A k \in DOMAIN share_boxes : HonestlyExtracted(share_boxes[k], d)

(* C1: reconstruct, given the published box and k >= t ShareBoxes honestly   *)
(* extracted from it by distinct recipients (any subset of the positions),   *)
(* returns the secret that was shared.                                       *)
C1_AnySubsetReconstructs ==
  (/\ out.op = "reconstruct"
   /\ out.box = dsb[1]
   /\ Len(out.share_boxes) >= dealer[1].threshold
   /\ HonestOfDistinctRecipients(out.share_boxes, dsb[1]))
  => out.ret = Some(dealer[1].secret)

(* C2: the box distribute returns for distinct recipient keys, a threshold   *)
(* 1 <= t <= N, any polynomial and any witness passes                        *)
(* verify_distribution_shares.                                               *)
C2_DistributionVerifies ==
  (out.op = "verify_distribution_shares" /\ out.box = dsb[1]) => out.ret = TRUE

C2_Witness ==
  /\ out.op = "verify_distribution_shares"
  /\ out.box = dsb[1]
  /\ out.ret = TRUE
  /\ Len(dsb[1].publickeys) >= 3
  /\ Len(dsb[1].commitments) >= 2
  /\ dealer[1].w > 0

(* C3: for a listed recipient with a valid private key and any extraction    *)
(* witness, extraction from the published box returns a ShareBox, and that   *)
(* ShareBox passes verify_share under the recipient's public key.            *)
C3_ExtractedShareVerifies ==
  (/\ out.op = "extract_secret_share"
   /\ out.box = dsb[1]
   /\ out.private_key \in PrivateKeys
   /\ generate_public_key(out.private_key) \in Listed(out.box))
  => /\ ~out.panicked
     /\ out.ret # None
     /\ verify_share(out.ret[1], out.box, generate_public_key(out.private_key))

C3_Witness ==
  /\ out.op = "extract_secret_share"
  /\ out.private_key \in PrivateKeys \ {1}
  /\ ~out.panicked
  /\ out.w > 0
  /\ out.box.positions[generate_public_key(out.private_key)] >= 2
  /\ verify_share(out.ret[1], out.box, generate_public_key(out.private_key))

AlteredShareBox(sb, t) ==
  /\ t.publickey = sb.publickey
  /\ << t.share, t.response, t.challenge >> # << sb.share, sb.response, sb.challenge >>

(* C4: an honestly extracted ShareBox in which the share, the response or    *)
(* the challenge has been replaced by a different non-negative integer is    *)
(* rejected by verify_share under the recipient's public key, the hash taken *)
(* as collision-free: the altered box is accepted only if the verifier's     *)
(* transcript for it differs from the transcript of the box it was made      *)
(* from, that is only by a coincidence of digests.                           *)
C4_ShareTamperingDetected ==
  (/\ out.op = "verify_share"
   /\ out.box = dsb[1]
   /\ out.sharebox.publickey = out.publickey
   /\ out.ret = TRUE)
  => \A sb \in ExtractedShareBoxes(dsb[1]) :
       AlteredShareBox(sb, out.sharebox)
       => verify_hasher(out.sharebox, out.box.shares[out.publickey])
            # verify_hasher(sb, out.box.shares[out.publickey])

SameKeys(d, b) ==
  /\ b.publickeys = d.publickeys
  /\ b.positions = d.positions
  /\ b.u = d.u
  /\ DOMAIN b.commitments = DOMAIN d.commitments
  /\ DOMAIN b.shares = DOMAIN d.shares
  /\ DOMAIN b.responses = DOMAIN d.responses

ChangedComponents(d, b) ==
  Cardinality({j \in DOMAIN d.commitments : b.commitments[j] # d.commitments[j]})
  + Cardinality({pk \in DOMAIN d.shares : b.shares[pk] # d.shares[pk]})
  + Cardinality({pk \in DOMAIN d.responses : b.responses[pk] # d.responses[pk]})
  + (IF b.challenge # d.challenge THEN 1 ELSE 0)

(* C5: a published box in which exactly one commitment, one encrypted share, *)
(* one response or the challenge has been changed is rejected by             *)
(* verify_distribution_shares, the hash taken as collision-free: the changed *)
(* box is accepted only if the verifier's transcript for it differs from the *)
(* transcript of the published box, that is only by a coincidence of         *)
(* digests.                                                                  *)
C5_DistributionTamperingDetected ==
  (/\ out.op = "verify_distribution_shares"
   /\ SameKeys(dsb[1], out.box)
   /\ ChangedComponents(dsb[1], out.box) = 1
   /\ out.ret = TRUE)
  => verify_distribution_loop(out.box, 1, << >>)
       # verify_distribution_loop(dsb[1], 1, << >>)

(* C6: verify_share(sb, D, pk) returns true only if (sb.challenge,           *)
(* sb.response) passes the DLEQ verifier over the statement                  *)
(* (G, pk, sb.share, D.shares[pk]) with pk the key passed as argument,       *)
(* whatever sb.publickey holds.                                              *)
C6_VerifiesArgumentKey ==
  (out.op = "verify_share" /\ out.ret = TRUE)
  => LET encrypted_share == Get(out.box.shares, out.publickey)
     IN /\ encrypted_share # None
        /\ Verifier_check(out.sharebox.challenge,
                          Verifier_update(G, out.publickey, out.sharebox.share,
                                          encrypted_share[1], out.sharebox.response,
                                          out.sharebox.challenge, << >>))

(* C7: reconstruct returns None when fewer ShareBoxes than commitments are   *)
(* supplied, and when a supplied ShareBox's publickey has no position.       *)
C7_ReconstructAbsent ==
  (/\ out.op = "reconstruct"
   /\ \/ Len(out.share_boxes) < Len(out.box.commitments)
      \/ \E k \in DOMAIN out.share_boxes :
           out.share_boxes[k].publickey \notin DOMAIN out.box.positions)
  => out.ret = None

C7_Witness ==
  /\ out.op = "reconstruct"
  /\ Len(out.share_boxes) >= Len(out.box.commitments)
  /\ out.share_boxes[Len(out.share_boxes)].publickey \notin DOMAIN out.box.positions
  /\ \A k \in 1..(Len(out.share_boxes) - 1) :
       out.share_boxes[k].publickey \in DOMAIN out.box.positions
  /\ Len(out.share_boxes) >= 2
  /\ out.ret = None

(* C8: extract_secret_share(D, sk) returns None, without aborting, when      *)
(* G^sk mod q is not a key of D.shares.                                      *)
C8_ExtractAbsentForStranger ==
  (/\ out.op = "extract_secret_share"
   /\ generate_public_key(out.private_key) \notin DOMAIN out.box.shares)
  => (~out.panicked /\ out.ret = None)

MissingEntry(b) ==
  \E pk \in Listed(b) :
    \/ pk \notin DOMAIN b.positions
    \/ pk \notin DOMAIN b.responses
    \/ pk \notin DOMAIN b.shares

(* C10: verify_distribution_shares returns false whenever a listed public    *)
(* key has no entry in positions, in responses or in shares, whatever the    *)
(* other components hold.                                                    *)
C10_MissingEntryRejected ==
  (out.op = "verify_distribution_shares" /\ MissingEntry(out.box)) => out.ret = FALSE

C10_Witness ==
  /\ out.op = "verify_distribution_shares"
  /\ Len(out.box.publickeys) >= 2
  /\ out.box.publickeys[Len(out.box.publickeys)] \notin DOMAIN out.box.shares
  /\ \A k \in 1..(Len(out.box.publickeys) - 1) :
       out.box.publickeys[k] \in DOMAIN out.box.shares
  /\ out.box.challenge # dsb[1].challenge
  /\ out.ret = FALSE

(* C11: decoding the encoding of a UTF-8 string gives the string back, the   *)
(* empty string and strings that start with NUL bytes included.              *)
C11_EncodingRoundTrip ==
  out.op = "string_from_secret" => (~out.panicked /\ out.ret = out.message)

(* C12: in a group set up for a safe prime q, with G = 2, two valid private  *)
(* keys (0 <= sk < q, gcd(sk, q - 1) = 1) with the same public key are the   *)
(* same key.                                                                 *)
C12_PublicKeyInjective ==
  out.op = "generate_public_key"
  => \A other \in 0..(out.q - 1) :
       (Gcd(other, out.q - 1) = 1
        /\ generate_public_key_in(other, out.q) = out.ret)
       => other = out.private_key

C12_Witness ==
  /\ out.op = "generate_public_key"
  /\ out.q >= 23
  /\ out.private_key > (out.q - 1) \div 2
  /\ \E k \in 1..((out.q - 1) \div 2) : modpow(G, k, out.q) = 1

(* C13: with threshold 1 the dealer publishes exactly one commitment, and    *)
(* reconstruct given any one honestly extracted ShareBox, whatever its       *)
(* position, returns the secret.                                             *)
C13_ThresholdOne ==
  (dealer # None /\ dealer[1].threshold = 1)
  => /\ Len(dsb[1].commitments) = 1
     /\ (/\ out.op = "reconstruct"
         /\ out.box = dsb[1]
         /\ Len(out.share_boxes) = 1
         /\ HonestlyExtracted(out.share_boxes[1], dsb[1]))
        => out.ret = Some(dealer[1].secret)

C13_Witness ==
  /\ dealer # None
  /\ dealer[1].threshold = 1
  /\ Len(dsb[1].publickeys) >= 3
  /\ dealer[1].coefficients[1] > 0
  /\ out.op = "reconstruct"
  /\ Len(out.share_boxes) = 1
  /\ Get(dsb[1].positions, out.share_boxes[1].publickey) = Some(3)
  /\ out.share_boxes[1].share > 1
  /\ out.ret = Some(dealer[1].secret)

AllPositions(d) == [k \in 1..Len(d.publickeys) |-> k]

(* C14: when the honestly extracted ShareBoxes of all N recipients are       *)
(* supplied, for any threshold 1 <= t <= N, every Lagrange coefficient used  *)
(* is an integer and reconstruct returns the secret.                         *)
C14_AllRecipientsReconstruct ==
  (/\ out.op = "reconstruct"
   /\ out.box = dsb[1]
   /\ Len(out.share_boxes) = Len(dsb[1].publickeys)
   /\ HonestOfDistinctRecipients(out.share_boxes, dsb[1]))
  => /\ \A k \in 1..Len(dsb[1].publickeys) :
          LET lagrangeCoefficient == lagrange_coefficient(k, AllPositions(dsb[1]))
          IN TruncRem(lagrangeCoefficient[1], lagrangeCoefficient[2]) = 0
     /\ out.ret = Some(dealer[1].secret)

C14_Witness ==
  /\ out.op = "reconstruct"
  /\ out.box = dsb[1]
  /\ Len(dsb[1].publickeys) = 3
  /\ Len(out.share_boxes) = 3
  /\ HonestOfDistinctRecipients(out.share_boxes, dsb[1])
  /\ dealer[1].threshold = 3
  /\ dealer[1].coefficients[3] > 0
  /\ out.share_boxes[1].publickey # dsb[1].publickeys[1]
  /\ out.ret = Some(dealer[1].secret)

KeypairValid ==
  /\ 0 <= privatekey /\ privatekey < q
  /\ Gcd(privatekey, q - 1) = 1
  /\ publickey = modpow(G, privatekey, q)

(* C15: after any sequence of one or more initialize() calls, whatever else  *)
(* was called in between, the key pair of the Participant satisfies          *)
(* 0 <= sk < q, gcd(sk, q - 1) = 1 and pk = G^sk mod q.                      *)
C15_KeypairValid ==
  /\ out.op = "initialize" => KeypairValid
  /\ keypair # << 0, 0 >> => KeypairValid

C15_Witness ==
  /\ out.op = "initialize"
  /\ dsb # None
  /\ privatekey = 7
  /\ publickey = 7

(* C16, as stated: once initialize() has set the key pair, no operation of   *)
(* the Participant interface, initialize included, changes sk or pk.         *)
C16_KeysImmutable == [][keypair # << 0, 0 >> => keypair' = keypair]_vars

(* C16, amended: a step that changes sk or pk is a call of initialize();     *)
(* distribute_secret, extract_secret_share, verify_distribution_shares,      *)
(* verify_share and reconstruct leave both fields as they are.               *)
C16_OnlyInitializeChangesKeys == [][Initialize \/ keypair' = keypair]_vars

C16_Witness ==
  /\ privatekey = 3
  /\ publickey = 8
  /\ out.op = "distribute_secret"
  /\ ~out.panicked
  /\ dsb # None

(* C17: every box distribute returns for N recipient public keys and         *)
(* threshold t is well formed: t commitments, t <= N = |publickeys|, the     *)
(* k-th listed public key at position k for every k in 1..N, and positions,  *)
(* shares and responses keyed by exactly the listed public keys.             *)
C17_DistributionWellFormed ==
  dsb # None
  => LET d == dsb[1]
     IN /\ d.publickeys = dealer[1].publickeys
        /\ Len(d.commitments) = dealer[1].threshold
        /\ Len(d.commitments) <= Len(d.publickeys)
        /\ \A k \in 1..Len(d.publickeys) :
             Get(d.positions, d.publickeys[k]) = Some(k)
        /\ DOMAIN d.positions = Listed(d)
        /\ DOMAIN d.shares = Listed(d)
        /\ DOMAIN d.responses = Listed(d)

WiderThanQ(secret) == BitLength(secret) > BitLength(q)

HighBits(n) == n \div IntPow(2, BitLength(q))

(* C18, as stated: for a secret whose bit length exceeds that of q,          *)
(* reconstruct given t or more honestly extracted ShareBoxes of distinct     *)
(* recipients does not return the secret.                                    *)
C18_WideSecretNotRecovered ==
  (/\ out.op = "reconstruct"
   /\ out.box = dsb[1]
   /\ WiderThanQ(dealer[1].secret)
   /\ Len(out.share_boxes) >= dealer[1].threshold
   /\ HonestOfDistinctRecipients(out.share_boxes, dsb[1]))
  => out.ret # Some(dealer[1].secret)

(* C18, amended: the masking truncates nothing.  For a secret whose bit      *)
(* length exceeds that of q, every value reconstruct returns for the         *)
(* published box has the secret's bits above the width of q, and given the   *)
(* honestly extracted ShareBoxes of all N recipients reconstruct returns     *)
(* the secret itself.                                                        *)
C18_WideSecretKept ==
  (/\ out.op = "reconstruct"
   /\ out.box = dsb[1]
   /\ WiderThanQ(dealer[1].secret)
   /\ out.ret # None)
  => /\ HighBits(out.ret[1]) = HighBits(dealer[1].secret)
     /\ (/\ Len(out.share_boxes) = Len(dsb[1].publickeys)
         /\ HonestOfDistinctRecipients(out.share_boxes, dsb[1]))
        => out.ret = Some(dealer[1].secret)

C18_Witness ==
  /\ out.op = "reconstruct"
  /\ out.box = dsb[1]
  /\ WiderThanQ(dealer[1].secret)
  /\ dealer[1].threshold = 2
  /\ Len(dsb[1].publickeys) = 3
  /\ Len(out.share_boxes) = 3
  /\ HonestOfDistinctRecipients(out.share_boxes, dsb[1])
  /\ out.ret = Some(dealer[1].secret)

(* C19: for every integer a, negative ones included, and every modulus       *)
(* m > 1, mod_inverse(a, m) returns r with 0 <= r < m and a * r = 1 (mod m)  *)
(* when gcd(|a|, m) = 1, and returns None when gcd(|a|, m) # 1.              *)
C19_ModInverse ==
  out.op = "mod_inverse"
  => IF Gcd(abs(out.a), out.modular) = 1
     THEN /\ out.ret # None
          /\ 0 <= out.ret[1] /\ out.ret[1] < out.modular
          /\ (out.a * out.ret[1]) % out.modular = 1 % out.modular
     ELSE out.ret = None

RECURSIVE SetProduct(_, _)
SetProduct(S, i) ==
  IF S = {} THEN << 1, 1 >>
  ELSE LET j == CHOOSE x \in S : TRUE
           rest == SetProduct(S \ {j}, i)
       IN << j * rest[1], (j - i) * rest[2] >>

(* C20: lagrange_coefficient(i, S) is (0, 1) when i is not in S; when i is   *)
(* in S it is the unreduced pair (product of j, product of j - i) over       *)
(* exactly the j in S with j # i and 1 <= j <= max(S), so a member below 1   *)
(* contributes no factor and the numerator is at least 1.                    *)
C20_LagrangeCoefficient ==
  out.op = "lagrange_coefficient"
  => LET S == Range(out.values)
     IN IF out.i \notin S THEN out.ret = << 0, 1 >>
        ELSE /\ out.ret = SetProduct({j \in S : j # out.i /\ 1 <= j}, out.i)
             /\ out.ret[1] >= 1

C20_Witness ==
  /\ out.op = "lagrange_coefficient"
  /\ out.i = 3
  /\ Range(out.values) = {0, 3, 4}
  /\ out.ret = << 4, 1 >>

(* the positions and shares reconstruct collects from the supplied list *)
CollectedShares(share_boxes, d) == reconstruct_shares(share_boxes, d.positions, 1, EmptyMap)

(* the reduced denominator of the Lagrange pair has no inverse modulo q - 1 *)
DenominatorNotInvertible(lagrangeCoefficient) ==
  /\ TruncRem(lagrangeCoefficient[1], lagrangeCoefficient[2]) # 0
  /\ LET gcd == Gcd(lagrangeCoefficient[1], abs(lagrangeCoefficient[2]))
     IN mod_inverse(abs(lagrangeCoefficient[2]) \div gcd, q - 1) = None

(* C21: in reconstruct, a position whose reduced Lagrange denominator has no *)
(* inverse modulo q - 1 is skipped: its factor is the neutral element 1, not *)
(* a power of the share.                                                     *)
C21_DegenerateFactorSkipped ==
  (out.op = "reconstruct" /\ out.ret # None)
  => LET shares == CollectedShares(out.share_boxes, out.box)[1]
         values == SortedKeys(DOMAIN shares)
     IN \A k \in DOMAIN values :
          DenominatorNotInvertible(lagrange_coefficient(values[k], values))
          => compute_factor(values[k], shares[values[k]], values) = 1
(* C22: DLEQ completeness.  For a prover that knows alpha (h1 = g1^alpha,  *)
(* h2 = g2^alpha mod q), any witness w and challenge c, the response       *)
(* r = (w - alpha * c) floor-mod (q - 1) lies in [0, q - 1), and the       *)
(* commitments the verifier recomputes and absorbs into the transcript are *)
(* the prover's a1 = g1^w and a2 = g2^w mod q.                             *)
C22_DleqComplete ==
  (out.op = "dleq_update_hash")
  => /\ 0 <= out.r /\ out.r < q - 1
     /\ Verifier_commitment(out.g1, out.h1, out.r, out.c) = out.a1
     /\ Verifier_commitment(out.g2, out.h2, out.r, out.c) = out.a2
     /\ out.hasher = to_str_radix(out.h1) \o to_str_radix(out.h2)
                      \o to_str_radix(out.a1) \o to_str_radix(out.a2)

(* an exchange where w - alpha * c is negative and alpha exceeds q - 1 *)
C22_Witness ==
  /\ out.op = "dleq_update_hash"
  /\ out.w - out.alpha * out.c < 0
  /\ out.alpha > q - 1
  /\ out.g1 # out.g2
  /\ out.a1 # 1
  /\ out.h1 # 1
(* the position the dealer gave a public key: its place in the list *)
PositionOf(publickeys, pk) == CHOOSE k \in DOMAIN publickeys : publickeys[k] = pk

(* the secret share of a position: p(i) mod (q - 1) for the dealer's polynomial *)
SecretShare(coefficients, position) == mod_floor(get_value(coefficients, position), q - 1)

(* C23: for a listed recipient with a valid private key sk, the ShareBox      *)
(* extracted from the published box has share = G^(s_i) mod q, where s_i is   *)
(* the dealer's polynomial at the recipient's position reduced mod (q - 1),   *)
(* and publickey = G^sk mod q.                                                *)
C23_ShareDecrypted ==
  (/\ out.op = "extract_secret_share"
   /\ out.box = dsb[1]
   /\ out.private_key \in PrivateKeys
   /\ generate_public_key(out.private_key) \in Listed(out.box))
  => /\ ~out.panicked
     /\ out.ret # None
     /\ out.ret[1].publickey = modpow(G, out.private_key, q)
     /\ out.ret[1].share =
          modpow(G, SecretShare(dealer[1].coefficients,
                                PositionOf(dealer[1].publickeys,
                                           modpow(G, out.private_key, q))), q)

(* a recipient at the third position whose polynomial value exceeds q - 1 *)
C23_Witness ==
  /\ out.op = "extract_secret_share"
  /\ out.box = dsb[1]
  /\ out.private_key \in PrivateKeys \ {1}
  /\ ~out.panicked
  /\ Len(dealer[1].publickeys) = 3
  /\ Len(dealer[1].coefficients) = 3
  /\ generate_public_key(out.private_key) = dealer[1].publickeys[3]
  /\ get_value(dealer[1].coefficients, 3) > q - 1
  /\ out.ret[1].share = modpow(G, SecretShare(dealer[1].coefficients, 3), q)
  /\ out.ret[1].share # 1
(* C24: in every box distribute returns, for any two recipients i and j the  *)
(* published responses and challenge satisfy                                 *)
(* r_i - r_j = (s_j - s_i) * c (mod q - 1), with s the dealer's polynomial    *)
(* at the recipient's published position reduced mod (q - 1): one witness w  *)
(* serves every recipient.                                                   *)
C24_ResponsesRevealShareDifferences ==
  (dsb # None)
  => LET d == dsb[1]
         s(pk) == SecretShare(dealer[1].coefficients, d.positions[pk])
     IN \A pki \in DOMAIN d.responses, pkj \in DOMAIN d.responses :
          mod_floor((d.responses[pki] - d.responses[pkj])
                      - (s(pkj) - s(pki)) * d.challenge, q - 1) = 0

(* a box with a non-zero challenge and two recipients whose secret shares   *)
(* and responses differ                                                     *)
C24_Witness ==
  /\ dsb # None
  /\ dsb[1].challenge # 0
  /\ dealer[1].w > 0
  /\ \E pki \in DOMAIN dsb[1].responses, pkj \in DOMAIN dsb[1].responses :
       /\ dsb[1].responses[pki] # dsb[1].responses[pkj]
       /\ SecretShare(dealer[1].coefficients, dsb[1].positions[pki])
            # SecretShare(dealer[1].coefficients, dsb[1].positions[pkj])
(* the positions of the box that a list of ShareBoxes covers *)
CoveredPositions(share_boxes, d) ==
  {d.positions[share_boxes[k].publickey] :
     k \in {x \in DOMAIN share_boxes : share_boxes[x].publickey \in DOMAIN d.positions}}

(* C25: whenever reconstruct returns a value, the supplied ShareBoxes cover  *)
(* at least t = |commitments| distinct positions of the box; a list of t or  *)
(* more ShareBoxes that repeats a public key and covers fewer than t         *)
(* positions yields no value.                                                *)
C25_ThresholdOfDistinctPositions ==
  (out.op = "reconstruct" /\ out.ret # None)
  => Cardinality(CoveredPositions(out.share_boxes, out.box)) >= Len(out.box.commitments)
(* the supplied ShareBoxes in the order of their positions *)
InPositionOrder(share_boxes, d) ==
  LET ps == SortedKeys({d.positions[share_boxes[k].publickey] : k \in DOMAIN share_boxes})
  IN [k \in DOMAIN ps |->
        CHOOSE sb \in Range(share_boxes) : d.positions[sb.publickey] = ps[k]]

(* the products the fold can arrive at, taking the pending factors in any order *)
RECURSIVE FoldsInAnyOrder(_, _, _)
FoldsInAnyOrder(factors, pending, secret) ==
  IF pending = {} THEN {secret}
  ELSE UNION {FoldsInAnyOrder(factors, pending \ {k},
                              reconstruct_fold(<< factors[k] >>, 1, secret)) :
                k \in pending}

(* C26: for ShareBoxes with pairwise-distinct public keys, whatever the order *)
(* of the supplied list and the order in which the per-position tasks        *)
(* finish, reconstruct returns what it returns for the list in position      *)
(* order, and folding the factors in any order gives the same product.       *)
C26_OrderIndependent ==
  (out.op = "reconstruct_folded")
  => /\ out.ret = reconstruct(InPositionOrder(out.share_boxes, out.box), out.box)
     /\ FoldsInAnyOrder(out.factors, DOMAIN out.factors, 1) = {out.secret}

(* three ShareBoxes supplied against the order of their positions, the task *)
(* of the last position finishing first, with factors that differ           *)
C26_Witness ==
  /\ out.op = "reconstruct_folded"
  /\ Len(out.share_boxes) = 3
  /\ out.box.positions[out.share_boxes[1].publickey]
       > out.box.positions[out.share_boxes[2].publickey]
  /\ out.first = Some(3)
  /\ out.factors[1] # out.factors[2]
  /\ out.ret = Some(dealer[1].secret)
====
